---- MODULE Spec2Model ----
(***************************************************************************)
(* Model of bisheng/chat/handlers.py: the Handler class that dispatches a  *)
(* chat action to process_message, process_file or process_autogen and     *)
(* streams response frames to the session's channel.                       *)
(*                                                                         *)
(* The model follows one websocket connection, that is one session         *)
(* (client_id, chat_id), and the dispatch_task calls made for it.  Every   *)
(* call is a task, numbered in the order the calls are made.  A task's     *)
(* position is pc[t]; the coroutine is cut at its await points (every      *)
(* send_json, the computation, the object's input), so tasks interleave    *)
(* exactly where the event loop can switch.  Tasks of another session      *)
(* share no cache key, channel or history with this one.                   *)
(***************************************************************************)
EXTENDS Integers, Sequences, FiniteSets, TLC

\* ------------------------------------------------------------------ bounds
NumTasks == 2       \* dispatch_task calls in one run
MaxQuestions == 2   \* questions an InputNode yields
MaxDocs == 1        \* source documents a computation returns
MaxSourceDocs == 2  \* source documents when lines 91-124 are run on their own

\* ------------------------------------------------------------------ values
Nil == "nil"        \* Python None, and an optional field left unset

Tasks == 1..NumTasks
ClientIds == {"c1"}
ChatIds == {"", "chat1"}

\* handlers.py 22-25: the handler registered for each action
handler_dict ==
    [default |-> "process_message",
     autogen |-> "process_autogen",
     auto_file |-> "process_file"]

ActionNames == DOMAIN handler_dict \cup {"bogus"}

\* bisheng.utils.util.get_cache_key: a deterministic, injective join
NoNode == "<none>"
get_cache_key(client_id, chat_id, node_id) == <<client_id, chat_id, node_id>>
Artifacts(key) == Append(key, "_artifacts")

\* Python truthiness of a str (or None) and of a list
TruthyStr(s) == s # "" /\ s # Nil
TruthySeq(q) == Len(q) > 0

\* ChatResponse(type=...): every optional field unset
ChatResponse(type) ==
    [type |-> type, category |-> Nil, message |-> Nil,
     intermediate_steps |-> Nil, source |-> FALSE]

\* the error text of handlers.py 74, f'分析出错，{str(e)}': a fixed prefix
\* (given here in English) and the exception's message
ErrorPrefix == "analysis error: "
\* the exception's message alone
ErrorTextBare(e) == e
ErrorText(e) == ErrorPrefix \o e

\* messages an exception raised by the computation can carry
Errors == {"", "bad model"}

\* a SourceDocument is its metadata's bbox entry: missing key, empty, or a box
BBoxKinds == {"absent", "empty", "box"}
RECURSIVE SeqsUpTo(_, _)
SeqsUpTo(S, n) ==
    IF n = 0 THEN {<<>>}
    ELSE LET shorter == SeqsUpTo(S, n - 1)
         IN  shorter \cup {Append(q, x) : q \in shorter, x \in S}
DocLists == SeqsUpTo(BBoxKinds, MaxDocs)

\* ------------------------------------------------------------ cached objects
\* A built object: its class, the capabilities process_autogen probes with
\* hasattr, the node it was built for and, for an InputNode, its questions.
Obj(kind, has_stop, has_input, node, questions) ==
    [kind |-> kind, has_stop |-> has_stop, has_input |-> has_input,
     node |-> node, questions |-> questions]
NoneObj == Obj("None", FALSE, FALSE, Nil, <<>>)
ChainObj(node) == Obj("Chain", FALSE, FALSE, node, <<>>)
AutoGenObj(node) == Obj("AutoGenChain", TRUE, TRUE, node, <<>>)
InitObjects == {NoneObj, AutoGenObj(Nil)}

\* in_memory_cache.get(key): None when the key is absent
CacheGet(cache, key) == IF key \in DOMAIN cache THEN cache[key] ELSE NoneObj
\* the same for an artifact map; None and {} are both falsy at handlers.py 46
CacheGetArtifacts(cache, key) == IF key \in DOMAIN cache THEN cache[key] ELSE << >>
\* session.set_cache(key, value)
CachePut(cache, key, value) == (key :> value) @@ cache

\* ------------------------------------------------------------------ inputs
\* payload['inputs'] of a default action, with or without a target node id
InputChoices ==
    {[question |-> "hi", lang |-> "en"],
     [question |-> "hi", lang |-> "en", id |-> "n1"]}
DefaultPayloads ==
    {[inputs |-> i, is_begin |-> b] : i \in InputChoices, b \in BOOLEAN}
\* payload['inputs']['action'] of an autogen action
ControlWords == {"stop", "Continue", "continue", "pause"}
AutogenPayloads == {[inputs |-> [action |-> a]] : a \in ControlWords}
\* the word taken as it was sent
LowerNot(a) == a
\* str.lower() on the control words
Lower(a) == IF a = "Continue" THEN "continue" ELSE a
\* an auto_file payload: file_path is "<storedPath>_<originalName>"
FilePayloads == {[file_path |-> <<"store", "report.pdf">>, id |-> "n1"]}
PayloadsFor(action) ==
    CASE action = "default" -> DefaultPayloads
      [] action = "autogen" -> AutogenPayloads
      [] action = "auto_file" -> FilePayloads
      [] OTHER -> {[inputs |-> [question |-> "hi", lang |-> "en"]]}

\* what process_graph can return as intermediate steps: None, a str (given as
\* its lines, the str being the lines joined by "\n"), or a list of exchanges
StepsNone == [kind |-> "none", lines |-> <<>>, list |-> <<>>]
StepsStr(lines) == [kind |-> "str", lines |-> lines, list |-> <<>>]
StepsList(list) == [kind |-> "list", lines |-> <<>>, list |-> list]
StepsChoices == {StepsNone, StepsStr(<<"">>), StepsStr(<<"Thought", "Action">>)}
Results == {"hello"}

\* ------------------------------------------------------------------- state
VARIABLES
    conn,             \* client_id and chat_id of the session
    pc,               \* [Tasks -> the task's position]
    req,              \* [Tasks -> the action of the dispatch call, Nil before it]
    payload,          \* [Tasks -> the dispatch call's payload]
    pm,               \* [Tasks -> locals of process_message]
    pf,               \* [Tasks -> locals of process_file]
    exc,              \* [Tasks -> the exception in flight or raised, Nil if none]
    scope,            \* the task inside set_client_id(client_id, chat_id), 0 if none
    in_memory_cache,  \* session.in_memory_cache: key -> object or artifact map
    channel,          \* the frames sent to the session with send_json, in order
    chat_history,     \* the messages given to chat_history.add_message, in order
    recall,           \* RecallChunk rows committed, in order
    calls,            \* [Tasks -> handlers invoked, in order]
    outcome,          \* [Tasks -> per turn, how the computation ended]
    obj_calls         \* [Tasks -> stop/input calls made on the cached object]

vars == <<conn, pc, req, payload, pm, pf, exc, scope, in_memory_cache, channel,
          chat_history, recall, calls, outcome, obj_calls>>

NoPayload == [inputs |-> << >>]

\* locals of process_message before it is entered
PmIdle ==
    [caller |-> Nil, turn |-> 0, chat_inputs |-> << >>, node_id |-> "",
     is_begin |-> TRUE, key |-> << >>, start_resp |-> ChatResponse(Nil),
     langchain_object |-> NoneObj, result |-> Nil,
     intermediate_steps |-> StepsNone, source_document |-> << >>,
     e |-> Nil, end_resp |-> ChatResponse(Nil), source |-> FALSE,
     response |-> ChatResponse(Nil), message_id |-> 0, steps |-> << >>]

\* locals of process_file before it is entered
PfIdle ==
    [node_id |-> Nil, file_name |-> Nil, start_resp |-> ChatResponse(Nil),
     artifacts |-> << >>, graph |-> << >>, input |-> Nil,
     questions |-> << >>, qi |-> 0, question |-> Nil,
     target |-> Nil, input_key |-> Nil, report |-> "", payload |-> NoPayload]

\* session.send_json(client_id, chat_id, frame): the frame as it is when sent,
\* appended to the session's channel; task and turn record who sent it, and
\* the frame's message id is its place in the channel
Sent(frame, t, turn, add) ==
    [type |-> frame.type, category |-> frame.category,
     message |-> frame.message, intermediate_steps |-> frame.intermediate_steps,
     source |-> frame.source, add |-> add, task |-> t, turn |-> turn,
     message_id |-> Len(channel) + 1]
send_json(frame, t, turn, add) ==
    channel' = Append(channel, Sent(frame, t, turn, add))

\* the cache as the session manager left it when the sessions connected
InitCaches(client_id, chat_id) ==
    {[k \in {get_cache_key(client_id, chat_id, n) : n \in {NoNode, ""}} |-> o] :
        o \in InitObjects \ {NoneObj}} \cup {<< >>}

Init ==
    /\ conn \in [client_id : ClientIds, chat_id : ChatIds]
    /\ pc = [t \in Tasks |-> "idle"]
    /\ req = [t \in Tasks |-> Nil]
    /\ payload = [t \in Tasks |-> NoPayload]
    /\ pm = [t \in Tasks |-> PmIdle]
    /\ pf = [t \in Tasks |-> PfIdle]
    /\ exc = [t \in Tasks |-> Nil]
    /\ scope = 0
    /\ in_memory_cache \in InitCaches(conn.client_id, conn.chat_id)
    /\ channel = << >>
    /\ chat_history = << >>
    /\ recall = << >>
    /\ calls = [t \in Tasks |-> << >>]
    /\ outcome = [t \in Tasks |-> << >>]
    /\ obj_calls = [t \in Tasks |-> << >>]

\* --------------------------------------------------------------- dispatcher
\* cache_manager.set_client_id(client_id, chat_id) as the design describes it:
\* a scope one task holds per session, entered only when nobody holds it
ScopeFree == scope = 0
ScopeEnter(t) == scope' = t
ScopeExit(t) == scope' = IF scope = t THEN 0 ELSE scope

\* where a handler starts
EntryOf(handler) ==
    CASE handler = "process_message" -> "pm_entry"
      [] handler = "process_file" -> "pf_entry"
      [] handler = "process_autogen" -> "pa_entry"

\* handlers.py 27-33, up to the handler's first statement: enter the session
\* scope; an action without a handler raises and leaves the scope at once.
\* scoped = FALSE is the call without the with statement; table is the
\* handler table consulted.
DispatchWith(t, scoped, table) ==
    /\ pc[t] = "idle"
    /\ \A u \in Tasks : u < t => pc[u] # "idle"
    /\ \E action \in ActionNames :
       \E p \in PayloadsFor(action) :
          /\ scoped => ScopeFree
          /\ req' = [req EXCEPT ![t] = action]
          /\ IF action \notin DOMAIN table
             THEN /\ exc' = [exc EXCEPT ![t] = "unknown action"]
                  /\ pc' = [pc EXCEPT ![t] = "raised"]
                  /\ UNCHANGED <<scope, payload, pm, calls>>
             ELSE /\ IF scoped THEN ScopeEnter(t) ELSE UNCHANGED scope
                  /\ payload' = [payload EXCEPT ![t] = p]
                  /\ pm' = [pm EXCEPT ![t].caller = "dispatch"]
                  /\ calls' = [calls EXCEPT ![t] = Append(@, table[action])]
                  /\ pc' = [pc EXCEPT ![t] = EntryOf(table[action])]
                  /\ UNCHANGED exc
    /\ UNCHANGED <<conn, pf, in_memory_cache, channel, chat_history, recall,
                   outcome, obj_calls>>

\* the call made outside the session scope
DispatchUnscoped(t) == DispatchWith(t, FALSE, handler_dict)

\* a table that sends every other action to the default handler
FallbackTable ==
    [a \in ActionNames |->
        IF a \in DOMAIN handler_dict THEN handler_dict[a] ELSE "process_message"]
DispatchFallback(t) == DispatchWith(t, TRUE, FallbackTable)

\* handlers.py 27-33
dispatch_task(t) == DispatchWith(t, TRUE, handler_dict)

\* handlers.py 30, 33: the handler returned; the with statement exits
DispatchReturn(t) ==
    /\ pc[t] = "return"
    /\ ScopeExit(t)
    /\ pc' = [pc EXCEPT ![t] = "done"]
    /\ payload' = [payload EXCEPT ![t] = NoPayload]
    /\ pm' = [pm EXCEPT ![t] = PmIdle]
    /\ pf' = [pf EXCEPT ![t] = PfIdle]
    /\ UNCHANGED <<conn, req, exc, in_memory_cache, channel, chat_history, recall,
                   calls, outcome, obj_calls>>

\* the same exit that forgets to leave the scope when an exception passes
DispatchRaiseKeepsScope(t) ==
    /\ pc[t] = "raise"
    /\ pc' = [pc EXCEPT ![t] = "raised"]
    /\ payload' = [payload EXCEPT ![t] = NoPayload]
    /\ pm' = [pm EXCEPT ![t] = PmIdle]
    /\ pf' = [pf EXCEPT ![t] = PfIdle]
    /\ UNCHANGED <<conn, req, exc, scope, in_memory_cache, channel, chat_history,
                   recall, calls, outcome, obj_calls>>

\* handlers.py 30, 33: an exception leaves the handler (no handler of
\* process_file or dispatch_task catches it); the with statement exits
DispatchRaise(t) ==
    /\ pc[t] = "raise"
    /\ ScopeExit(t)
    /\ pc' = [pc EXCEPT ![t] = "raised"]
    /\ payload' = [payload EXCEPT ![t] = NoPayload]
    /\ pm' = [pm EXCEPT ![t] = PmIdle]
    /\ pf' = [pf EXCEPT ![t] = PfIdle]
    /\ UNCHANGED <<conn, req, exc, in_memory_cache, channel, chat_history, recall,
                   calls, outcome, obj_calls>>

\* ---------------------------------------------------------- process_message
\* handlers.py 41: the target node id, '' when the inputs carry none
NodeIdOf(inputs) == IF "id" \in DOMAIN inputs THEN inputs.id ELSE ""
\* handlers.py 41: the inputs after pop('id')
WithoutId(inputs) == [k \in DOMAIN inputs \ {"id"} |-> inputs[k]]
\* handlers.py 42: payload.get('is_begin', True)
IsBegin(p) == IF "is_begin" \in DOMAIN p THEN p.is_begin ELSE TRUE
\* the resolution that also copies the artifacts the inputs do not name
OverrideInputsMerge(inputs, artifacts) ==
    [k \in DOMAIN inputs \cup DOMAIN artifacts |->
        IF k \in DOMAIN artifacts THEN artifacts[k] ELSE inputs[k]]
\* handlers.py 46-49: a cached artifact replaces the input of the same name
OverrideInputs(inputs, artifacts) ==
    [k \in DOMAIN inputs |->
        IF k \in DOMAIN artifacts THEN artifacts[k] ELSE inputs[k]]
\* handlers.py 50-51: the question as a ChatMessage
QuestionMessage(chat_inputs, is_begin) ==
    [cls |-> "ChatMessage", message |-> chat_inputs, category |-> "question",
     is_bot |-> ~is_begin, type |-> "bot", files |-> << >>]

\* the payload process_message was called with: the dispatch call's, or the
\* one process_file built for a question
PayloadOf(t) == IF pm[t].caller = "process_file" THEN pf[t].payload ELSE payload[t]

\* the number of the turn process_message is running for task t
TurnOf(t) == Len(SelectSeq(calls[t], LAMBDA h : h = "process_message"))

\* the entry that sends begin only for the first message of the history
PM_BeginFirstOnly(t) ==
    /\ pc[t] = "pm_entry"
    /\ LET p == PayloadOf(t)
           node_id == NodeIdOf(p.inputs)
           is_begin == IsBegin(p)
           key == get_cache_key(conn.client_id, conn.chat_id, node_id)
           artifacts == CacheGetArtifacts(in_memory_cache, Artifacts(key))
           chat_inputs == OverrideInputs(WithoutId(p.inputs), artifacts)
       IN  /\ pm' = [pm EXCEPT ![t].node_id = node_id, ![t].is_begin = is_begin,
                               ![t].key = key, ![t].chat_inputs = chat_inputs,
                               ![t].turn = TurnOf(t),
                               ![t].start_resp =
                                   IF is_begin THEN ChatResponse("begin") ELSE @]
           /\ IF is_begin
              THEN /\ chat_history' =
                          Append(chat_history, QuestionMessage(chat_inputs, is_begin))
                   /\ IF chat_history = << >>
                      THEN send_json(ChatResponse("begin"), t, TurnOf(t), TRUE)
                      ELSE UNCHANGED channel
              ELSE UNCHANGED <<chat_history, channel>>
    /\ pc' = [pc EXCEPT ![t] = "pm_start"]
    /\ UNCHANGED <<conn, req, payload, pf, exc, scope, in_memory_cache, recall, calls,
                   outcome, obj_calls>>

\* handlers.py 40-56: resolve the inputs; a user-initiated turn persists the
\* question and sends begin
PM_Begin(t) ==
    /\ pc[t] = "pm_entry"
    /\ LET p == PayloadOf(t)
           node_id == NodeIdOf(p.inputs)
           is_begin == IsBegin(p)
           key == get_cache_key(conn.client_id, conn.chat_id, node_id)
           artifacts == CacheGetArtifacts(in_memory_cache, Artifacts(key))
           chat_inputs == OverrideInputs(WithoutId(p.inputs), artifacts)
       IN  /\ pm' = [pm EXCEPT ![t].node_id = node_id, ![t].is_begin = is_begin,
                               ![t].key = key, ![t].chat_inputs = chat_inputs,
                               ![t].turn = TurnOf(t),
                               ![t].start_resp =
                                   IF is_begin THEN ChatResponse("begin") ELSE @]
           /\ IF is_begin
              THEN /\ chat_history' =
                          Append(chat_history, QuestionMessage(chat_inputs, is_begin))
                   /\ send_json(ChatResponse("begin"), t, TurnOf(t), TRUE)
              ELSE UNCHANGED <<chat_history, channel>>
    /\ pc' = [pc EXCEPT ![t] = "pm_start"]
    /\ UNCHANGED <<conn, req, payload, pf, exc, scope, in_memory_cache, recall, calls,
                   outcome, obj_calls>>

\* handlers.py 57-58: send start
PM_Start(t) ==
    /\ pc[t] = "pm_start"
    /\ pm' = [pm EXCEPT ![t].start_resp = ChatResponse("start")]
    /\ send_json(ChatResponse("start"), t, pm[t].turn, TRUE)
    /\ pc' = [pc EXCEPT ![t] = "pm_compute"]
    /\ UNCHANGED <<conn, req, payload, pf, exc, scope, in_memory_cache, chat_history,
                   recall, calls, outcome, obj_calls>>

\* how a turn's computation ended: it returned result, or it raised e and
\* the turn returns None (handlers.py 85); is_begin is the turn's flag
Returned(result, is_begin) ==
    [ok |-> TRUE, e |-> Nil, result |-> result, is_begin |-> is_begin]
Raised(e, is_begin) ==
    [ok |-> FALSE, e |-> e, result |-> Nil, is_begin |-> is_begin]

\* handlers.py 62-70: read the cached object and run it; process_graph either
\* returns (result, intermediate_steps, source_document) or raises
PM_Compute(t) ==
    /\ pc[t] = "pm_compute"
    /\ LET langchain_object == CacheGet(in_memory_cache, pm[t].key)
       IN  \/ \E result \in Results, steps \in StepsChoices, docs \in DocLists :
                /\ pm' = [pm EXCEPT ![t].langchain_object = langchain_object,
                                    ![t].result = result,
                                    ![t].intermediate_steps = steps,
                                    ![t].source_document = docs]
                /\ outcome' = [outcome EXCEPT ![t] = Append(@, Returned(result, pm[t].is_begin))]
                /\ pc' = [pc EXCEPT ![t] = "pm_logs"]
           \/ \E e \in Errors :
                /\ pm' = [pm EXCEPT ![t].langchain_object = langchain_object,
                                    ![t].e = e]
                /\ outcome' = [outcome EXCEPT ![t] = Append(@, Raised(e, pm[t].is_begin))]
                /\ pc' = [pc EXCEPT ![t] = "pm_except"]
    /\ UNCHANGED <<conn, req, payload, pf, exc, scope, in_memory_cache, channel,
                   chat_history, recall, calls, obj_calls>>

\* handlers.py 73-76: the end frame carrying the error text
PM_ErrEnd(t) ==
    /\ pc[t] = "pm_except"
    /\ LET end_resp == [ChatResponse("end") EXCEPT
                            !.intermediate_steps = ErrorText(pm[t].e)]
       IN  /\ pm' = [pm EXCEPT ![t].end_resp = end_resp]
           /\ send_json(end_resp, t, pm[t].turn, TRUE)
    /\ pc' = [pc EXCEPT ![t] =
                 IF ~TruthyStr(conn.chat_id) THEN "pm_dup_start" ELSE "pm_err_close"]
    /\ UNCHANGED <<conn, req, payload, pf, exc, scope, in_memory_cache, chat_history,
                   recall, calls, outcome, obj_calls>>

\* handlers.py 78-80: without a chat id, start is sent again
PM_ErrDupStart(t) ==
    /\ pc[t] = "pm_dup_start"
    /\ send_json(pm[t].start_resp, t, pm[t].turn, TRUE)
    /\ pc' = [pc EXCEPT ![t] = "pm_dup_end"]
    /\ UNCHANGED <<conn, req, payload, pm, pf, exc, scope, in_memory_cache,
                   chat_history, recall, calls, outcome, obj_calls>>

\* handlers.py 81-83: the error text moves to message and end is sent again
PM_ErrDupEnd(t) ==
    /\ pc[t] = "pm_dup_end"
    /\ LET end_resp == [pm[t].end_resp EXCEPT
                            !.message = pm[t].end_resp.intermediate_steps,
                            !.intermediate_steps = Nil]
       IN  /\ pm' = [pm EXCEPT ![t].end_resp = end_resp]
           /\ send_json(end_resp, t, pm[t].turn, TRUE)
    /\ pc' = [pc EXCEPT ![t] = "pm_err_close"]
    /\ UNCHANGED <<conn, req, payload, pf, exc, scope, in_memory_cache, chat_history,
                   recall, calls, outcome, obj_calls>>

\* the handler that sends close and raises the exception again
PM_ErrCloseReraise(t) ==
    /\ pc[t] = "pm_err_close"
    /\ send_json(ChatResponse("close"), t, pm[t].turn, TRUE)
    /\ pm' = [pm EXCEPT ![t].result = Nil]
    /\ exc' = [exc EXCEPT ![t] = pm[t].e]
    /\ pc' = [pc EXCEPT ![t] = "raise"]
    /\ UNCHANGED <<conn, req, payload, pf, scope, in_memory_cache, chat_history,
                   recall, calls, outcome, obj_calls>>

\* handlers.py 77, 84-85: close, and return None
PM_ErrClose(t) ==
    /\ pc[t] = "pm_err_close"
    /\ send_json(ChatResponse("close"), t, pm[t].turn, TRUE)
    /\ pm' = [pm EXCEPT ![t].result = Nil]
    /\ pc' = [pc EXCEPT ![t] = "pm_return"]
    /\ UNCHANGED <<conn, req, payload, pf, exc, scope, in_memory_cache, chat_history,
                   recall, calls, outcome, obj_calls>>

\* handlers.py 245-246: the parameters of intermediate_logs after self
IntermediateLogsParams ==
    <<"session", "client_id", "chat_id", "user_id", "intermediate_steps">>
\* handlers.py 90: the arguments the call in process_message passes
IntermediateLogsArgs == <<"client_id", "chat_id", "user_id", "intermediate_steps">>
\* the call with the session passed first
IntermediateLogsArgsWithSession ==
    <<"session", "client_id", "chat_id", "user_id", "intermediate_steps">>
\* a Python call with positional arguments binds when every required
\* parameter gets one; otherwise the call raises TypeError before the body runs
CallBinds(params, args) == Len(args) = Len(params)

\* handlers.py 88: intermediate_steps or ''
StepsOrEmpty(steps) ==
    IF steps.kind = "none" \/ (steps.kind = "list" /\ ~TruthySeq(steps.list))
    THEN StepsStr(<<"">>) ELSE steps

\* handlers.py 88-90: normalise the steps and call intermediate_logs
PM_IntermediateLogs(t) ==
    /\ pc[t] = "pm_logs"
    /\ pm' = [pm EXCEPT ![t].intermediate_steps = StepsOrEmpty(@)]
    /\ IF CallBinds(IntermediateLogsParams, IntermediateLogsArgs)
       THEN /\ pc' = [pc EXCEPT ![t] = "il_entry"]
            /\ UNCHANGED exc
       ELSE /\ pc' = [pc EXCEPT ![t] = "raise"]
            /\ exc' = [exc EXCEPT ![t] = "TypeError"]
    /\ UNCHANGED <<conn, req, payload, pf, scope, in_memory_cache, channel,
                   chat_history, recall, calls, outcome, obj_calls>>

\* ------------------------------------------------------- intermediate_logs
\* lines of an agent's log: plain text, blank text, and lines that name
\* source_documents: one whose payload evaluates to a dict with a result, one
\* whose dict has none, and one without a payload to evaluate
SdWithResult == "Observation: {'result': 'r', 'source_documents': []}"
SdNoResult == "Observation: {'source_documents': []}"
SdBad == "source_documents"
LogLines == {"", " ", "Thought", SdWithResult, SdNoResult, SdBad}
\* handlers.py 267: 'source_documents' in s
NamesSourceDocuments(s) == s \in {SdWithResult, SdNoResult, SdBad}
\* handlers.py 268: eval(s.split(':', 1)[1]) raises when there is no ':' part
Evaluates(s) == s # SdBad
\* handlers.py 267-270: the line as it is logged
LineStep(s) == IF s = SdWithResult THEN "Answer: r" ELSE s
\* str.strip() of the log is empty: every line is blank
Blank(lines) == \A i \in 1..Len(lines) : lines[i] \in {"", " "}
\* an exchange of a multi-agent dialog: message, sender and the receiver,
\* who is absent, a bot or a human
Exchanges ==
    {[message |-> "m", sender |-> "a", receiver |-> r] :
        r \in {"none", "bot", "human"}}
\* handlers.py 248: not intermediate_steps, for None, '' and []
Falsy(steps) ==
    \/ steps.kind = "none"
    \/ steps.kind = "str" /\ steps.lines = <<"">>
    \/ steps.kind = "list" /\ steps.list = << >>

\* handlers.py 255-262: the sub-frame of an exchange
ExchangeStep(x) ==
    [ChatResponse("end") EXCEPT !.message = x.message]
        @@ [sender |-> x.sender, receiver |-> x.receiver,
            is_bot |-> x.receiver # "bot"]
\* handlers.py 266-272: the sub-frame of a log line
LineSubFrame(s) == [ChatResponse("end") EXCEPT !.intermediate_steps = LineStep(s)]
\* the log as one str: its lines joined by "\n"
RECURSIVE Joined(_)
Joined(lines) ==
    IF Len(lines) = 1 THEN lines[1]
    ELSE lines[1] \o "\n" \o Joined(Tail(lines))

\* handlers.py 253-275: the sub-frames built from the steps; a raw log (no
\* chat id, or a blank log) builds none
BuildSteps(steps, chat_id) ==
    IF steps.kind = "list"
    THEN [i \in 1..Len(steps.list) |-> ExchangeStep(steps.list[i])]
    ELSE IF TruthyStr(chat_id) /\ ~Blank(steps.lines)
    THEN [i \in 1..Len(steps.lines) |-> LineSubFrame(steps.lines[i])]
    ELSE << >>
\* handlers.py 265-268: building the sub-frames evaluates a line and fails
EvalFails(steps, chat_id) ==
    /\ steps.kind = "str"
    /\ TruthyStr(chat_id) /\ ~Blank(steps.lines)
    /\ \E i \in 1..Len(steps.lines) :
           NamesSourceDocuments(steps.lines[i]) /\ ~Evaluates(steps.lines[i])
\* handlers.py 247, 275: the end frame, carrying the raw log when no
\* sub-frame is built from a str
LogEndFrame(steps, chat_id) ==
    IF ~Falsy(steps) /\ steps.kind = "str"
       /\ ~(TruthyStr(chat_id) /\ ~Blank(steps.lines))
    THEN [ChatResponse("end") EXCEPT !.intermediate_steps = Joined(steps.lines)]
    ELSE ChatResponse("end")

\* handlers.py 247-276: absent steps send the bare end frame and return;
\* otherwise the sub-frames are built, which can raise, and the end frame is
\* sent, in both cases with add=False
IL_Send(t) ==
    /\ pc[t] = "il_entry"
    /\ LET steps == pm[t].intermediate_steps
       IN  IF Falsy(steps)
           THEN /\ send_json(ChatResponse("end"), t, pm[t].turn, FALSE)
                /\ pc' = [pc EXCEPT ![t] = "pm_source"]
                /\ UNCHANGED <<pm, exc>>
           ELSE IF EvalFails(steps, conn.chat_id)
           THEN /\ pc' = [pc EXCEPT ![t] = "raise"]
                /\ exc' = [exc EXCEPT ![t] = "eval error"]
                /\ UNCHANGED <<pm, channel>>
           ELSE /\ pm' = [pm EXCEPT ![t].end_resp =
                                        LogEndFrame(steps, conn.chat_id),
                                    ![t].steps = BuildSteps(steps, conn.chat_id)]
                /\ send_json(LogEndFrame(steps, conn.chat_id), t, pm[t].turn, FALSE)
                /\ pc' = [pc EXCEPT ![t] = "il_persist"]
                /\ UNCHANGED exc
    /\ UNCHANGED <<conn, req, payload, pf, scope, in_memory_cache, chat_history,
                   recall, calls, outcome, obj_calls>>

\* the loop that stops after the first sub-frame
IL_PersistFirst(t) ==
    /\ pc[t] = "il_persist"
    /\ chat_history' = chat_history \o SubSeq(pm[t].steps, 1, 1)
    /\ pc' = [pc EXCEPT ![t] = "pm_source"]
    /\ UNCHANGED <<conn, req, payload, pm, pf, exc, scope, in_memory_cache, channel,
                   recall, calls, outcome, obj_calls>>

\* handlers.py 278-280: every sub-frame goes to the chat history, in order
IL_Persist(t) ==
    /\ pc[t] = "il_persist"
    /\ chat_history' = chat_history \o pm[t].steps
    /\ pc' = [pc EXCEPT ![t] = "pm_source"]
    /\ UNCHANGED <<conn, req, payload, pm, pf, exc, scope, in_memory_cache, channel,
                   recall, calls, outcome, obj_calls>>

\* handlers.py 85, 124: return to the caller, dispatch_task or process_file
PM_Return(t) ==
    /\ pc[t] = "pm_return"
    /\ pc' = [pc EXCEPT ![t] =
                 IF pm[t].caller = "process_file" THEN "pf_collect" ELSE "return"]
    /\ UNCHANGED <<conn, req, payload, pm, pf, exc, scope, in_memory_cache, channel,
                   chat_history, recall, calls, outcome, obj_calls>>

\* handlers.py 95: 'bbox' not in doc.metadata or not doc.metadata['bbox']
NoBBox(doc) == doc = "absent" \/ doc = "empty"

\* the flag that only looks at the chat id and at whether documents came back
SourceFlagUnchecked(source_document, chat_id) ==
    TruthySeq(source_document) /\ TruthyStr(chat_id)

\* handlers.py 91-96: documents came back, the chat id is not empty, and the
\* loop found no document without a bounding box
SourceFlag(source_document, chat_id) ==
    IF TruthySeq(source_document) /\ TruthyStr(chat_id)
    THEN \A i \in 1..Len(source_document) : ~NoBBox(source_document[i])
    ELSE FALSE

\* handlers.py 91-96: decide whether the answer can be traced
PM_Source(t) ==
    /\ pc[t] = "pm_source"
    /\ pm' = [pm EXCEPT ![t].source =
                 SourceFlag(pm[t].source_document, conn.chat_id)]
    /\ pc' = [pc EXCEPT ![t] = "pm_answer_start"]
    /\ UNCHANGED <<conn, req, payload, pf, exc, scope, in_memory_cache, channel,
                   chat_history, recall, calls, outcome, obj_calls>>

\* handlers.py 98-101, 106-107: start_resp again, as a divider for a
\* multi-agent object and as the answer's start otherwise
PM_AnswerStart(t) ==
    /\ pc[t] = "pm_answer_start"
    /\ LET start_resp ==
               [pm[t].start_resp EXCEPT !.category =
                   IF pm[t].langchain_object.kind = "AutoGenChain"
                   THEN "divider" ELSE "answer"]
       IN  /\ pm' = [pm EXCEPT ![t].start_resp = start_resp]
           /\ send_json(start_resp, t, pm[t].turn, TRUE)
    /\ pc' = [pc EXCEPT ![t] = "pm_answer_end"]
    /\ UNCHANGED <<conn, req, payload, pf, exc, scope, in_memory_cache,
                   chat_history, recall, calls, outcome, obj_calls>>

\* the text of handlers.py 102
RoundOver == "round over"

\* handlers.py 102-104, 108-114: the end frame; sending it gives the
\* response its message id
PM_AnswerEnd(t) ==
    /\ pc[t] = "pm_answer_end"
    /\ LET response ==
               IF pm[t].langchain_object.kind = "AutoGenChain"
               THEN [ChatResponse("end") EXCEPT !.message = RoundOver,
                                                !.category = "divider"]
               ELSE [ChatResponse("end") EXCEPT
                        !.message = IF pm[t].is_begin THEN pm[t].result ELSE "",
                        !.intermediate_steps =
                            IF ~pm[t].is_begin THEN pm[t].result ELSE "",
                        !.category = "answer",
                        !.source = pm[t].source]
       IN  /\ pm' = [pm EXCEPT ![t].response = response,
                               ![t].message_id = Len(channel) + 1]
           /\ send_json(response, t, pm[t].turn, TRUE)
    /\ pc' = [pc EXCEPT ![t] = "pm_close"]
    /\ UNCHANGED <<conn, req, payload, pf, exc, scope, in_memory_cache,
                   chat_history, recall, calls, outcome, obj_calls>>

\* handlers.py 117-118: close
PM_Close(t) ==
    /\ pc[t] = "pm_close"
    /\ send_json(ChatResponse("close"), t, pm[t].turn, TRUE)
    /\ pc' = [pc EXCEPT ![t] = "pm_recall"]
    /\ UNCHANGED <<conn, req, payload, pm, pf, exc, scope, in_memory_cache,
                   chat_history, recall, calls, outcome, obj_calls>>

\* handlers.py 304-317: one RecallChunk for every document whose metadata has
\* a bbox entry
RECURSIVE RecallChunks(_, _, _, _)
RecallChunks(source_document, i, chat_id, message_id) ==
    IF i > Len(source_document) THEN << >>
    ELSE (IF source_document[i] # "absent"
          THEN <<[chat_id |-> chat_id, message_id |-> message_id, chunk |-> i,
                  bbox |-> source_document[i]]>>
          ELSE << >>)
         \o RecallChunks(source_document, i + 1, chat_id, message_id)

\* the recorder that stops after the first document
process_source_document_first(rows, source_document, chat_id, message_id) ==
    IF ~TruthySeq(source_document) THEN rows
    ELSE rows \o RecallChunks(SubSeq(source_document, 1, 1), 1, chat_id, message_id)

\* handlers.py 282-317: nothing for an empty list, else the chunks are added
process_source_document(rows, source_document, chat_id, message_id) ==
    IF ~TruthySeq(source_document) THEN rows
    ELSE rows \o RecallChunks(source_document, 1, chat_id, message_id)

\* handlers.py 120-124: record the recalled chunks of a traceable answer and
\* return the result
PM_Recall(t) ==
    /\ pc[t] = "pm_recall"
    /\ recall' =
           IF pm[t].source
           THEN process_source_document(recall, pm[t].source_document,
                    conn.chat_id, pm[t].message_id)
           ELSE recall
    /\ pc' = [pc EXCEPT ![t] = "pm_return"]
    /\ UNCHANGED <<conn, req, payload, pm, pf, exc, scope, in_memory_cache,
                   channel, chat_history, calls, outcome, obj_calls>>

\* ------------------------------------------------------------- process_file
\* a vertex of the built graph: id, vertex_type, _built_object and, for an
\* InputNode, the target of its first edge
Vertex(id, vertex_type, built_object, target) ==
    [id |-> id, vertex_type |-> vertex_type, built_object |-> built_object,
     target |-> target]
Questions == {"", "q1", "q2"}
QuestionLists == SeqsUpTo(Questions, MaxQuestions)
\* the graphs build_flow_no_yield can return: one chain node, alone or fed
\* by an InputNode that yields a list of questions
Graphs ==
    {<<Vertex("n1", "Chain", ChainObj("n1"), Nil)>>}
    \cup {<<Vertex("n0", "InputNode",
                   Obj("InputNode", FALSE, FALSE, "n0", qs), "n1"),
            Vertex("n1", "Chain", ChainObj("n1"), Nil)>> : qs \in QuestionLists}
\* the artifact maps a build can fill
ArtifactChoices == {<< >>, [question |-> "from file", file |-> "report.pdf"]}
\* edge.target._built_object.input_keys[0]
InputKeyOf(node_id) == "question"

\* handlers.py 137: file_path.split('_', 1), the path given as its parts
SplitOnce(parts) == <<parts[1], parts[2]>>

\* the caching that stores the last node's object under every node's key
RECURSIVE CacheGraphLastObject(_, _, _, _, _)
CacheGraphLastObject(cache, client_id, chat_id, nodes, artifacts) ==
    IF nodes = << >> THEN cache
    ELSE LET node == Head(nodes)
             last == nodes[Len(nodes)]
             key_node == get_cache_key(client_id, chat_id, node.id)
             c1 == CachePut(cache, key_node, last.built_object)
             c2 == CachePut(c1, Artifacts(key_node), artifacts)
             c3 == CachePut(c2, get_cache_key(client_id, chat_id, NoNode),
                            node.built_object)
         IN  CacheGraphLastObject(c3, client_id, chat_id, Tail(nodes), artifacts)

\* the caching that writes the session's key and the artifacts only
RECURSIVE CacheGraphSessionOnly(_, _, _, _, _)
CacheGraphSessionOnly(cache, client_id, chat_id, nodes, artifacts) ==
    IF nodes = << >> THEN cache
    ELSE LET node == Head(nodes)
             key_node == get_cache_key(client_id, chat_id, node.id)
             c2 == CachePut(cache, Artifacts(key_node), artifacts)
             c3 == CachePut(c2, get_cache_key(client_id, chat_id, NoNode),
                            node.built_object)
         IN  CacheGraphSessionOnly(c3, client_id, chat_id, Tail(nodes), artifacts)

\* handlers.py 174-178: every node's object and the shared artifact map are
\* cached under the node's key, and the object under the session's key
RECURSIVE CacheGraph(_, _, _, _, _)
CacheGraph(cache, client_id, chat_id, nodes, artifacts) ==
    IF nodes = << >> THEN cache
    ELSE LET node == Head(nodes)
             key_node == get_cache_key(client_id, chat_id, node.id)
             c1 == CachePut(cache, key_node, node.built_object)
             c2 == CachePut(c1, Artifacts(key_node), artifacts)
             c3 == CachePut(c2, get_cache_key(client_id, chat_id, NoNode),
                            node.built_object)
         IN  CacheGraph(c3, client_id, chat_id, Tail(nodes), artifacts)

\* handlers.py 180: the first InputNode of the graph, None when there is none
RECURSIVE FirstInput(_)
FirstInput(nodes) ==
    IF nodes = << >> THEN Vertex(Nil, Nil, NoneObj, Nil)
    ELSE IF Head(nodes).vertex_type = "InputNode" THEN Head(nodes)
    ELSE FirstInput(Tail(nodes))

\* handlers.py 130-154: record the file in the history and send begin
PF_Begin(t) ==
    /\ pc[t] = "pf_entry"
    /\ LET names == SplitOnce(payload[t].file_path)
           file == [cls |-> "ChatMessage", message |-> "", category |-> Nil,
                    is_bot |-> FALSE, type |-> "end",
                    files |-> <<[file_name |-> names[2]]>>]
           start_resp == [ChatResponse("begin") EXCEPT !.category = "system"]
       IN  /\ chat_history' = Append(chat_history, file)
           /\ pf' = [pf EXCEPT ![t].node_id = payload[t].id,
                               ![t].file_name = names[2],
                               ![t].start_resp = start_resp]
           /\ send_json(start_resp, t, 0, TRUE)
    /\ pc' = [pc EXCEPT ![t] = "pf_start"]
    /\ UNCHANGED <<conn, req, payload, pm, exc, scope, in_memory_cache, recall, calls,
                   outcome, obj_calls>>

\* handlers.py 155-156: the same frame object, now of type start
PF_Start(t) ==
    /\ pc[t] = "pf_start"
    /\ LET start_resp == [pf[t].start_resp EXCEPT !.type = "start"]
       IN  /\ pf' = [pf EXCEPT ![t].start_resp = start_resp]
           /\ send_json(start_resp, t, 0, TRUE)
    /\ pc' = [pc EXCEPT ![t] = "pf_build"]
    /\ UNCHANGED <<conn, req, payload, pm, exc, scope, in_memory_cache, chat_history,
                   recall, calls, outcome, obj_calls>>

\* the build that has cached its first node when it fails
PF_BuildPartial(t) ==
    /\ pc[t] = "pf_build"
    /\ \E graph \in Graphs, artifacts \in ArtifactChoices :
         \/ /\ in_memory_cache' =
                    CacheGraph(in_memory_cache, conn.client_id, conn.chat_id,
                               SubSeq(graph, 1, 1), artifacts)
            /\ pc' = [pc EXCEPT ![t] = "pf_fail_end"]
            /\ UNCHANGED pf
         \/ LET input == FirstInput(graph)
            IN  /\ in_memory_cache' =
                       CacheGraph(in_memory_cache, conn.client_id, conn.chat_id,
                                  graph, artifacts)
                /\ pf' = [pf EXCEPT ![t].artifacts = artifacts,
                                    ![t].graph = graph,
                                    ![t].input = input.id,
                                    ![t].questions = input.built_object.questions,
                                    ![t].target = input.target]
                /\ pc' = [pc EXCEPT ![t] =
                             IF input.id = Nil THEN "pf_noinput_end"
                             ELSE "pf_analysis"]
    /\ UNCHANGED <<conn, req, payload, pm, exc, scope, channel, chat_history, recall,
                   calls, outcome, obj_calls>>

\* handlers.py 159-163, 172-181, 190: build the graph; on success cache every
\* node and look for the InputNode
PF_Build(t) ==
    /\ pc[t] = "pf_build"
    /\ \/ /\ pc' = [pc EXCEPT ![t] = "pf_fail_end"]
          /\ UNCHANGED <<pf, in_memory_cache>>
       \/ \E graph \in Graphs, artifacts \in ArtifactChoices :
            LET input == FirstInput(graph)
            IN  /\ in_memory_cache' =
                       CacheGraph(in_memory_cache, conn.client_id, conn.chat_id,
                                  graph, artifacts)
                /\ pf' = [pf EXCEPT ![t].artifacts = artifacts,
                                    ![t].graph = graph,
                                    ![t].input = input.id,
                                    ![t].questions = input.built_object.questions,
                                    ![t].target = input.target]
                /\ pc' = [pc EXCEPT ![t] =
                             IF input.id = Nil THEN "pf_noinput_end"
                             ELSE "pf_analysis"]
    /\ UNCHANGED <<conn, req, payload, pm, exc, scope, channel, chat_history, recall,
                   calls, outcome, obj_calls>>

\* a system end frame with the given text in intermediate_steps
SystemEnd(text) ==
    [ChatResponse("end") EXCEPT !.intermediate_steps = text,
                                !.category = "system"]

\* handlers.py 164-168: the build failed
PF_FailEnd(t) ==
    /\ pc[t] = "pf_fail_end"
    /\ send_json(SystemEnd("File is parsed fail"), t, 0, TRUE)
    /\ pc' = [pc EXCEPT ![t] = "pf_fail_close"]
    /\ UNCHANGED <<conn, req, payload, pm, pf, exc, scope, in_memory_cache,
                   chat_history, recall, calls, outcome, obj_calls>>

\* handlers.py 169-171 and 187-189: start_resp becomes the close frame
PF_EarlyClose(t) ==
    /\ pc[t] \in {"pf_fail_close", "pf_noinput_close"}
    /\ LET start_resp == [pf[t].start_resp EXCEPT !.type = "close"]
       IN  /\ pf' = [pf EXCEPT ![t].start_resp = start_resp]
           /\ send_json(start_resp, t, 0, TRUE)
    /\ pc' = [pc EXCEPT ![t] = "return"]
    /\ UNCHANGED <<conn, req, payload, pm, exc, scope, in_memory_cache, chat_history,
                   recall, calls, outcome, obj_calls>>

\* the same step sending the text of the failed build
PF_NoInputEndWrongText(t) ==
    /\ pc[t] = "pf_noinput_end"
    /\ send_json(SystemEnd("File is parsed fail"), t, 0, TRUE)
    /\ pc' = [pc EXCEPT ![t] = "pf_noinput_close"]
    /\ UNCHANGED <<conn, req, payload, pm, pf, exc, scope, in_memory_cache,
                   chat_history, recall, calls, outcome, obj_calls>>

\* handlers.py 181-186: no InputNode
PF_NoInputEnd(t) ==
    /\ pc[t] = "pf_noinput_end"
    /\ send_json(SystemEnd("File parsing complete"), t, 0, TRUE)
    /\ pc' = [pc EXCEPT ![t] = "pf_noinput_close"]
    /\ UNCHANGED <<conn, req, payload, pm, pf, exc, scope, in_memory_cache,
                   chat_history, recall, calls, outcome, obj_calls>>

\* handlers.py 190-200: announce the analysis, find the target's input key
PF_Analysis(t) ==
    /\ pc[t] = "pf_analysis"
    /\ send_json(
                 SystemEnd("File parsing complete, analysis starting"), t, 0, TRUE)
    /\ pf' = [pf EXCEPT ![t].input_key = InputKeyOf(pf[t].target),
                        ![t].report = "", ![t].qi = 0]
    /\ pc' = [pc EXCEPT ![t] = "pf_loop"]
    /\ UNCHANGED <<conn, req, payload, pm, exc, scope, in_memory_cache, chat_history,
                   recall, calls, outcome, obj_calls>>

\* handlers.py 201-203: the index of the next question that is not empty,
\* past the end when there is none
RECURSIVE NextQuestion(_, _)
NextQuestion(questions, i) ==
    IF i > Len(questions) THEN i
    ELSE IF ~TruthyStr(questions[i]) THEN NextQuestion(questions, i + 1)
    ELSE i

\* handlers.py 201-204: take the next question and build its payload
PF_Loop(t) ==
    /\ pc[t] = "pf_loop"
    /\ LET i == NextQuestion(pf[t].questions, pf[t].qi + 1)
       IN  IF i > Len(pf[t].questions)
           THEN /\ pf' = [pf EXCEPT ![t].qi = i]
                /\ pc' = [pc EXCEPT ![t] = "pf_report_start"]
           ELSE /\ pf' = [pf EXCEPT
                            ![t].qi = i,
                            ![t].question = pf[t].questions[i],
                            ![t].payload =
                                [inputs |-> (pf[t].input_key :> pf[t].questions[i])
                                            @@ [id |-> pf[t].target]]]
                /\ pc' = [pc EXCEPT ![t] = "pf_q_start"]
    /\ UNCHANGED <<conn, req, payload, pm, exc, scope, in_memory_cache, channel,
                   chat_history, recall, calls, outcome, obj_calls>>

\* handlers.py 205-206: the comparison on 205 changes nothing; start_resp is
\* sent as it is
PF_QStart(t) ==
    /\ pc[t] = "pf_q_start"
    /\ send_json(pf[t].start_resp, t, 0, TRUE)
    /\ pc' = [pc EXCEPT ![t] = "pf_q_end"]
    /\ UNCHANGED <<conn, req, payload, pm, pf, exc, scope, in_memory_cache,
                   chat_history, recall, calls, outcome, obj_calls>>

\* handlers.py 207-212: announce the question, then call process_message
PF_QEnd(t) ==
    /\ pc[t] = "pf_q_end"
    /\ send_json(
                 [ChatResponse("end") EXCEPT
                     !.intermediate_steps = pf[t].question,
                     !.category = "question"], t, 0, TRUE)
    /\ pm' = [pm EXCEPT ![t] = [PmIdle EXCEPT !.caller = "process_file"]]
    /\ calls' = [calls EXCEPT ![t] = Append(@, "process_message")]
    /\ pc' = [pc EXCEPT ![t] = "pm_entry"]
    /\ UNCHANGED <<conn, req, payload, pf, exc, scope, in_memory_cache, chat_history,
                   recall, outcome, obj_calls>>

\* str(result) of a str or None
Str(result) == IF result = Nil THEN "None" ELSE result
\* the report growing without the heading mark
ReportAddNoHeading(report, question, result) ==
    report \o question \o " \n " \o Str(result) \o " \n "
\* handlers.py 213: the report grows by the question and its result
ReportAdd(report, question, result) ==
    report \o "### " \o question \o " \n " \o Str(result) \o " \n "

\* handlers.py 213: process_message returned
PF_Collect(t) ==
    /\ pc[t] = "pf_collect"
    /\ pf' = [pf EXCEPT ![t].report = ReportAdd(@, pf[t].question, pm[t].result)]
    /\ pm' = [pm EXCEPT ![t] = PmIdle]
    /\ pc' = [pc EXCEPT ![t] = "pf_loop"]
    /\ UNCHANGED <<conn, req, payload, exc, scope, in_memory_cache, channel,
                   chat_history, recall, calls, outcome, obj_calls>>

\* handlers.py 215-216: start_resp, now of category report
PF_ReportStart(t) ==
    /\ pc[t] = "pf_report_start"
    /\ LET start_resp == [pf[t].start_resp EXCEPT !.category = "report"]
       IN  /\ pf' = [pf EXCEPT ![t].start_resp = start_resp]
           /\ send_json(start_resp, t, 0, TRUE)
    /\ pc' = [pc EXCEPT ![t] = "pf_report_end"]
    /\ UNCHANGED <<conn, req, payload, pm, exc, scope, in_memory_cache, chat_history,
                   recall, calls, outcome, obj_calls>>

\* handlers.py 217-219: the report frame
PF_ReportEnd(t) ==
    /\ pc[t] = "pf_report_end"
    /\ send_json(
                 [ChatResponse("end") EXCEPT
                     !.intermediate_steps = pf[t].report,
                     !.category = "report"], t, 0, TRUE)
    /\ pc' = [pc EXCEPT ![t] = "pf_close"]
    /\ UNCHANGED <<conn, req, payload, pm, pf, exc, scope, in_memory_cache,
                   chat_history, recall, calls, outcome, obj_calls>>

\* handlers.py 220-221: the final close
PF_Close(t) ==
    /\ pc[t] = "pf_close"
    /\ send_json(
                 [ChatResponse("close") EXCEPT !.category = "system"], t, 0, TRUE)
    /\ pc' = [pc EXCEPT ![t] = "return"]
    /\ UNCHANGED <<conn, req, payload, pm, pf, exc, scope, in_memory_cache,
                   chat_history, recall, calls, outcome, obj_calls>>

\* ---------------------------------------------------------- process_autogen
\* handlers.py 225-238: stop or continue the cached object when it can
PA_Control(t) ==
    /\ pc[t] = "pa_entry"
    /\ LET langchain_object ==
               CacheGet(in_memory_cache,
                        get_cache_key(conn.client_id, conn.chat_id, NoNode))
           action == Lower(payload[t].inputs.action)
       IN  IF action = "stop"
           THEN /\ obj_calls' = [obj_calls EXCEPT ![t] =
                       IF langchain_object.has_stop THEN Append(@, "stop") ELSE @]
                /\ pc' = [pc EXCEPT ![t] = "return"]
           ELSE IF action = "continue" /\ langchain_object.has_input
           THEN /\ obj_calls' = [obj_calls EXCEPT ![t] = Append(@, "input")]
                /\ pc' = [pc EXCEPT ![t] = "pa_start"]
           ELSE /\ pc' = [pc EXCEPT ![t] = "return"]
                /\ UNCHANGED obj_calls
    /\ UNCHANGED <<conn, req, payload, pm, pf, exc, scope, in_memory_cache, channel,
                   chat_history, recall, calls, outcome>>

\* handlers.py 240-241: a new round starts
PA_Start(t) ==
    /\ pc[t] = "pa_start"
    /\ send_json(ChatResponse("start"), t, 0, TRUE)
    /\ pc' = [pc EXCEPT ![t] = "return"]
    /\ UNCHANGED <<conn, req, payload, pm, pf, exc, scope, in_memory_cache,
                   chat_history, recall, calls, outcome, obj_calls>>

\* ------------------------------------------------------------ specification
Next ==
    \E t \in Tasks :
        \/ dispatch_task(t) \/ DispatchReturn(t) \/ DispatchRaise(t)
        \/ PM_Begin(t) \/ PM_Start(t) \/ PM_Compute(t) \/ PM_ErrEnd(t)
        \/ PM_ErrDupStart(t) \/ PM_ErrDupEnd(t) \/ PM_ErrClose(t)
        \/ PM_IntermediateLogs(t) \/ PM_Return(t)
        \/ PF_Begin(t) \/ PF_Start(t) \/ PF_Build(t) \/ PF_FailEnd(t)
        \/ PF_EarlyClose(t) \/ PF_NoInputEnd(t) \/ PF_Analysis(t) \/ PF_Loop(t)
        \/ PF_QStart(t) \/ PF_QEnd(t) \/ PF_Collect(t) \/ PF_ReportStart(t)
        \/ PF_ReportEnd(t) \/ PF_Close(t)
        \/ PA_Control(t) \/ PA_Start(t)

Spec == Init /\ [][Next]_vars

\* ---------------------------------------------------------------------------
\* process_message from line 91 on, for every value its locals can hold there:
\* the chat id, is_begin, the cached object and what the computation returned
SourceDocLists == SeqsUpTo(BBoxKinds, MaxSourceDocs)

InitTail ==
    /\ conn \in [client_id : ClientIds, chat_id : ChatIds]
    /\ pc = [t \in Tasks |-> IF t = 1 THEN "pm_source" ELSE "idle"]
    /\ req = [t \in Tasks |-> IF t = 1 THEN "default" ELSE Nil]
    /\ payload = [t \in Tasks |-> NoPayload]
    /\ \E is_begin \in BOOLEAN, result \in Results, docs \in SourceDocLists,
          object \in {NoneObj, ChainObj(Nil), AutoGenObj(Nil)} :
          pm = [t \in Tasks |->
                  IF t = 1
                  THEN [PmIdle EXCEPT !.caller = "dispatch", !.turn = 1,
                                      !.is_begin = is_begin, !.result = result,
                                      !.source_document = docs,
                                      !.langchain_object = object,
                                      !.intermediate_steps = StepsStr(<<"">>),
                                      !.start_resp = ChatResponse("start")]
                  ELSE PmIdle]
    /\ pf = [t \in Tasks |-> PfIdle]
    /\ exc = [t \in Tasks |-> Nil]
    /\ scope = 1
    /\ in_memory_cache = << >>
    /\ channel = << >>
    /\ chat_history = << >>
    /\ recall = << >>
    /\ calls = [t \in Tasks |-> IF t = 1 THEN <<"process_message">> ELSE << >>]
    /\ outcome = [t \in Tasks |->
                     IF t = 1 THEN <<Returned(pm[1].result, pm[1].is_begin)>>
                     ELSE << >>]
    /\ obj_calls = [t \in Tasks |-> << >>]

NextTail ==
    \E t \in Tasks :
        \/ PM_Source(t) \/ PM_AnswerStart(t) \/ PM_AnswerEnd(t) \/ PM_Close(t)
        \/ PM_Recall(t)

SpecTail == InitTail /\ [][NextTail]_vars

\* ---------------------------------------------------------------------------
\* intermediate_logs (lines 245-280) for every kind of steps it can be given,
\* on a session with or without a chat id and with or without history
MaxLogLines == 2
LogSteps ==
    {StepsNone}
    \cup {StepsStr(lines) : lines \in SeqsUpTo(LogLines, MaxLogLines) \ {<< >>}}
    \cup {StepsList(list) : list \in SeqsUpTo(Exchanges, MaxLogLines)}

InitLogs ==
    /\ conn \in [client_id : ClientIds, chat_id : ChatIds]
    /\ pc = [t \in Tasks |-> IF t = 1 THEN "il_entry" ELSE "idle"]
    /\ req = [t \in Tasks |-> IF t = 1 THEN "default" ELSE Nil]
    /\ payload = [t \in Tasks |-> NoPayload]
    /\ \E steps \in LogSteps :
          pm = [t \in Tasks |->
                  IF t = 1
                  THEN [PmIdle EXCEPT !.caller = "dispatch", !.turn = 1,
                                      !.is_begin = FALSE, !.result = "hello",
                                      !.intermediate_steps = steps,
                                      !.start_resp = ChatResponse("start")]
                  ELSE PmIdle]
    /\ pf = [t \in Tasks |-> PfIdle]
    /\ exc = [t \in Tasks |-> Nil]
    /\ scope = 1
    /\ in_memory_cache = << >>
    /\ channel = << >>
    /\ chat_history \in {<< >>, <<LineSubFrame("earlier")>>}
    /\ recall = << >>
    /\ calls = [t \in Tasks |-> IF t = 1 THEN <<"process_message">> ELSE << >>]
    /\ outcome = [t \in Tasks |->
                     IF t = 1 THEN <<Returned("hello", FALSE)>> ELSE << >>]
    /\ obj_calls = [t \in Tasks |-> << >>]

NextLogs == \E t \in Tasks : IL_Send(t) \/ IL_Persist(t)

SpecLogs == InitLogs /\ [][NextLogs]_vars

\* =================================================================== claims
\* the frames task t sent, and those of its k-th turn of process_message
TaskFrames(t) == SelectSeq(channel, LAMBDA f : f.task = t)
TurnFrames(t, k) == SelectSeq(channel, LAMBDA f : f.task = t /\ f.turn = k)
Types(frames) == [i \in 1..Len(frames) |-> frames[i].type]
Count(seq, x) == Cardinality({i \in 1..Len(seq) : seq[i] = x})
\* the place of the first x in seq, 0 when there is none
FirstIndex(seq, x) ==
    IF \E i \in 1..Len(seq) : seq[i] = x
    THEN CHOOSE i \in 1..Len(seq) : seq[i] = x /\ \A j \in 1..(i - 1) : seq[j] # x
    ELSE 0
\* a turn's frames without its leading begin
Body(frames) ==
    IF frames # << >> /\ frames[1].type = "begin" THEN Tail(frames) ELSE frames

\* the positions inside process_message
PmPositions ==
    {"pm_entry", "pm_start", "pm_compute", "pm_except", "pm_dup_start",
     "pm_dup_end", "pm_err_close", "pm_logs", "il_entry", "pm_source",
     "pm_answer_start", "pm_answer_end", "pm_close", "pm_recall"}
\* turn k of task t is over: process_message returned or an exception left it
TurnEnded(t, k) ==
    /\ k \in 1..TurnOf(t)
    /\ k < TurnOf(t) \/ pc[t] \notin PmPositions
\* the task is inside dispatch_task
Running(t) == pc[t] \notin {"idle", "done", "raised"}

\* begin? start (intermediate)* end close
WellShaped(types) ==
    LET n == Len(types)
    IN  /\ n >= 3
        /\ \A i \in 1..n : types[i] = "begin" => i = 1
        /\ FirstIndex(types, "start") # 0
        /\ FirstIndex(types, "end") > FirstIndex(types, "start")
        /\ Count(types, "close") = 1
        /\ types[n] = "close"
        /\ types[n - 1] = "end"

\* C1: the frames of every turn of process_message that is over have the
\* shape begin? start (intermediate)* end close: begin only first, a start
\* before any end, one close, and the close last.
C1_TurnShape ==
    \A t \in Tasks : \A k \in 1..TurnOf(t) :
        TurnEnded(t, k) => WellShaped(Types(TurnFrames(t, k)))

\* C2: every turn of process_message that is over has sent a close frame,
\* whether its computation returned or raised.
C2_TurnCloses ==
    \A t \in Tasks : \A k \in 1..TurnOf(t) :
        TurnEnded(t, k) => Count(Types(TurnFrames(t, k)), "close") >= 1

\* turn k of task t is over and its computation raised
FailedTurn(t, k) ==
    /\ k \in 1..Len(outcome[t])
    /\ TurnEnded(t, k)
    /\ ~outcome[t][k].ok

\* C3, as amended: a turn whose computation raised sends, after its begin if
\* any, start, end, close when the chat id is not empty and start, end, start,
\* end, close when it is empty.  The first end carries the error text, which
\* is never empty, in intermediate_steps and no message; the second carries
\* it in message with intermediate_steps cleared.  One close, sent last, and
\* no frame of category answer.
C3_FailedTurn ==
    \A t \in Tasks : \A k \in 1..Len(outcome[t]) :
        FailedTurn(t, k) =>
            LET fr == Body(TurnFrames(t, k))
                text == ErrorPrefix \o outcome[t][k].e
            IN  /\ text # ""
                /\ Types(fr) = IF conn.chat_id = ""
                               THEN <<"start", "end", "start", "end", "close">>
                               ELSE <<"start", "end", "close">>
                /\ fr[2].intermediate_steps = text
                /\ fr[2].message = Nil
                /\ conn.chat_id = "" =>
                       /\ fr[4].message = text
                       /\ fr[4].intermediate_steps = Nil
                /\ \A i \in 1..Len(fr) : fr[i].category # "answer"

\* C3 as stated: a turn whose computation raised sends exactly one end frame
\* and exactly one close frame; the end frame carries the error text in
\* intermediate_steps, or with an empty chat id in message with
\* intermediate_steps cleared; no frame of category answer.
C3_ExactlyOneEnd ==
    \A t \in Tasks : \A k \in 1..Len(outcome[t]) :
        FailedTurn(t, k) =>
            LET fr == TurnFrames(t, k)
                text == ErrorPrefix \o outcome[t][k].e
            IN  /\ Count(Types(fr), "end") = 1
                /\ Count(Types(fr), "close") = 1
                /\ \A i \in 1..Len(fr) :
                       /\ fr[i].category # "answer"
                       /\ fr[i].type = "end" =>
                              IF conn.chat_id = ""
                              THEN fr[i].message = text /\ fr[i].intermediate_steps = Nil
                              ELSE fr[i].intermediate_steps = text

\* a failed turn without a chat id is over
C3_Witness ==
    \E t \in Tasks : FailedTurn(t, 1) /\ conn.chat_id = "" /\ outcome[t][1].e = ""

\* every document has a bbox that is not empty
AllBoxed(docs) == \A i \in 1..Len(docs) : docs[i] = "box"
\* process_message is past line 96
SourceDecided(t) ==
    pc[t] \in {"pm_answer_start", "pm_answer_end", "pm_close", "pm_recall",
               "pm_return"}

RowsOf(t) ==
    SelectSeq(recall, LAMBDA r :
        r.message_id \in 1..Len(channel) /\ channel[r.message_id].task = t)

C6_ScenarioA ==
    \A t \in Tasks :
        (/\ req[t] = "default"
         /\ pc[t] \in {"return", "raise"}
         /\ pm[t].is_begin
         /\ Len(outcome[t]) = 1 /\ outcome[t][1].ok
         /\ pm[t].langchain_object.kind # "AutoGenChain"
         /\ pm[t].intermediate_steps = StepsStr(<<"">>)
         /\ pm[t].source_document = << >>)
        => LET fr == TaskFrames(t)
           IN  /\ Types(fr) = <<"begin", "start", "start", "end", "close">>
               /\ fr[3].category = "answer"
               /\ fr[4].message = pm[t].result
               /\ fr[4].source = FALSE
               /\ recall = << >>

\* C7: with the session scope a lock, at most one task is inside
\* dispatch_task at a time, and the frames of one task are never separated by
\* a frame of another.
C7_NoInterleaving ==
    /\ \A t, u \in Tasks : (t # u /\ Running(t)) => ~Running(u)
    /\ \A i \in 2..Len(channel) :
           channel[i].task # channel[i - 1].task =>
               \A j \in 1..(i - 1) : channel[j].task # channel[i].task

\* both tasks have sent frames to the session
C7_Witness ==
    /\ \E i \in 1..Len(channel) : channel[i].task = 1
    /\ \E i \in 1..Len(channel) : channel[i].task = 2

\* C8: the session scope is held only by a task inside dispatch_task; a task
\* that returned or raised does not hold it, and once no task is inside, the
\* next call can enter.
C8_ScopeReleased ==
    /\ scope # 0 => Running(scope)
    /\ \A t \in Tasks : pc[t] \in {"done", "raised"} => scope # t
    /\ \A u \in Tasks :
           (/\ pc[u] = "idle"
            /\ \A v \in Tasks : v # u => (~Running(v) /\ (v < u => pc[v] # "idle")))
           => ENABLED dispatch_task(u)

\* the first call ended with the handler's exception and the second holds
\* the scope
C8_Witness ==
    /\ pc[1] = "raised"
    /\ exc[1] = "TypeError"
    /\ scope = 2

\* a call with an action that has no handler ends with the unknown-action
\* error, invokes nothing and sends nothing; another call invokes the handler
\* registered for its action, and only process_file invokes anything more
C9_Calls ==
    \A t \in Tasks :
        req[t] # Nil =>
            IF req[t] \notin DOMAIN handler_dict
            THEN /\ pc[t] = "raised"
                 /\ exc[t] = "unknown action"
                 /\ calls[t] = << >>
                 /\ TaskFrames(t) = << >>
            ELSE /\ calls[t] # << >>
                 /\ calls[t][1] = handler_dict[req[t]]
                 /\ \A i \in 2..Len(calls[t]) :
                        req[t] = "auto_file" /\ calls[t][i] = "process_message"
\* the step of such a call changes neither channel, cache, history nor rows
C9_Untouched ==
    \A t \in Tasks :
        (pc[t] = "idle" /\ pc'[t] # "idle" /\ req'[t] \notin DOMAIN handler_dict)
        => UNCHANGED <<channel, in_memory_cache, chat_history, recall>>

\* C9: dispatch with an action outside {default, autogen, auto_file} raises
\* the unknown-action error, invokes no handler, sends no frame and leaves
\* cache, history and RecallChunk rows as they were; an action of the set
\* invokes the one handler registered for it.
C9_UnknownAction == []C9_Calls /\ [][C9_Untouched]_vars

\* an unknown action was refused after frames had been sent to the session
C9_Witness ==
    \E t \in Tasks :
        /\ req[t] = "bogus"
        /\ pc[t] = "raised"
        /\ channel # << >>
        /\ DOMAIN in_memory_cache # {}

\* process_file built a graph and found no InputNode in it
NoInputNode(t) ==
    /\ req[t] = "auto_file"
    /\ pf[t].graph # << >>
    /\ pf[t].input = Nil

\* C10: a file action whose graph builds and has no InputNode sends exactly
\* begin, start, end(system, 'File parsing complete'), close, all of category
\* system, and never invokes process_message.
C10_NoInputNode ==
    \A t \in Tasks :
        NoInputNode(t) =>
            LET fr == TaskFrames(t)
                expected == <<"begin", "start", "end", "close">>
            IN  /\ calls[t] = <<"process_file">>
                /\ pc[t] \in {"pf_noinput_end", "pf_noinput_close", "return"}
                /\ Len(fr) \in 2..4
                /\ \A i \in 1..Len(fr) :
                       /\ fr[i].type = expected[i]
                       /\ fr[i].category = "system"
                       /\ fr[i].message = Nil
                       /\ fr[i].intermediate_steps =
                              IF i = 3 THEN "File parsing complete" ELSE Nil
                /\ pc[t] = "pf_noinput_close" => Len(fr) = 3
                /\ pc[t] = "return" => Len(fr) = 4

\* such a file action has returned
C10_Witness == \E t \in Tasks : NoInputNode(t) /\ pc[t] = "return"

\* the questions of a list that are not empty, in order
NonEmpty(questions) == SelectSeq(questions, LAMBDA q : q # "")
\* task t is a file action whose graph has an InputNode
FileWithInput(t) == req[t] = "auto_file" /\ pf[t].input # Nil
\* the questions task t announced before calling process_message, in order
Announced(t) ==
    LET fr == SelectSeq(channel, LAMBDA f :
                  f.task = t /\ f.type = "end" /\ f.category = "question")
    IN  [i \in 1..Len(fr) |-> fr[i].intermediate_steps]

\* C11: in a file action whose InputNode yields questions, process_message
\* runs once per question that is not empty, in order, never for an empty
\* one, and every such turn runs with is_begin false and sends no begin
\* frame.
C11_FileTurns ==
    \A t \in Tasks :
        FileWithInput(t) =>
            LET asked == NonEmpty(pf[t].questions)
            IN  /\ TurnOf(t) <= Len(asked)
                /\ Announced(t) = SubSeq(asked, 1, TurnOf(t))
                /\ pc[t] \in {"return", "raise"} => TurnOf(t) = Len(asked)
                /\ \A k \in 1..Len(outcome[t]) : ~outcome[t][k].is_begin
                /\ \A i \in 1..Len(channel) :
                       (channel[i].task = t /\ channel[i].type = "begin")
                       => channel[i].turn = 0
                /\ pc[t] \in PmPositions \ {"pm_entry"} => ~pm[t].is_begin

\* what a turn gave back to process_file, as the report prints it
AnswerText(o) == IF o.result = Nil THEN "None" ELSE o.result
\* the report for the questions asked and what their turns returned
RECURSIVE ExpectedReport(_, _)
ExpectedReport(asked, outs) ==
    IF asked = << >> THEN ""
    ELSE "### " \o Head(asked) \o " \n " \o AnswerText(Head(outs)) \o " \n "
         \o ExpectedReport(Tail(asked), Tail(outs))

\* C12: a file action that has gone through all its questions has sent one
\* end frame of category report whose text holds, for each question that is
\* not empty, in order, '### ', the question and then what that question's
\* turn returned; the report frame is followed by a close frame, the last
\* frame of the action.
C12_Report ==
    \A t \in Tasks :
        (FileWithInput(t) /\ pc[t] = "return") =>
            LET fr == TaskFrames(t)
                n == Len(fr)
                asked == NonEmpty(pf[t].questions)
                reports == SelectSeq(fr, LAMBDA f :
                               f.type = "end" /\ f.category = "report")
            IN  /\ Len(outcome[t]) = Len(asked)
                /\ Len(reports) = 1
                /\ reports[1].intermediate_steps = ExpectedReport(asked, outcome[t])
                /\ n >= 2
                /\ fr[n - 1] = reports[1]
                /\ fr[n].type = "close"
                /\ Count(Types(fr), "close") = 1 + Len(asked)

\* a file action with two questions has sent its report and returned
C12_Witness ==
    \E t \in Tasks :
        /\ FileWithInput(t)
        /\ pc[t] = "return"
        /\ NonEmpty(pf[t].questions) = <<"q1", "q2">>
        /\ Len(pf[t].questions) = 2

\* task t is a file action whose build has not succeeded: before the build,
\* or after it failed
Unbuilt(t) == req[t] = "auto_file" /\ Running(t) /\ pf[t].graph = << >>
\* the build of task t's file action failed
BuildFailed(t) ==
    /\ Unbuilt(t)
    /\ pc[t] \in {"pf_fail_end", "pf_fail_close", "return"}

\* after a failed build: begin, start, end with the failure text, close, all
\* of category system; process_message not called; no exception
C13_Frames ==
    \A t \in Tasks :
        /\ Unbuilt(t) => pc[t] \in {"pf_entry", "pf_start", "pf_build",
                                     "pf_fail_end", "pf_fail_close", "return"}
        /\ BuildFailed(t) =>
            LET fr == TaskFrames(t)
                expected == <<"begin", "start", "end", "close">>
            IN  /\ calls[t] = <<"process_file">>
                /\ exc[t] = Nil
                /\ Len(fr) = CASE pc[t] = "pf_fail_end" -> 2
                               [] pc[t] = "pf_fail_close" -> 3
                               [] pc[t] = "return" -> 4
                /\ \A i \in 1..Len(fr) :
                       /\ fr[i].type = expected[i]
                       /\ fr[i].category = "system"
                       /\ fr[i].message = Nil
                       /\ fr[i].intermediate_steps =
                              IF i = 3 THEN "File is parsed fail" ELSE Nil
\* no step of a file action whose build has not succeeded changes the cache
C13_CacheKept ==
    \A t \in Tasks :
        (Unbuilt(t) /\ pc'[t] # pc[t] /\ pf'[t].graph = << >>)
        => UNCHANGED in_memory_cache

\* C13: when the build of a file action fails, the action sends begin, start,
\* an end system frame with the fixed failure text and close, and returns; no
\* cache entry is written or changed, process_message is not called and no
\* exception leaves the handler.
C13_BuildFailure == []C13_Frames /\ [][C13_CacheKept]_vars

\* a file action whose build failed has returned, on a session with a cache
C13_Witness ==
    \E t \in Tasks :
        /\ BuildFailed(t)
        /\ pc[t] = "return"
        /\ DOMAIN in_memory_cache # {}

\* the control word of an autogen payload, whatever its letter case
IsContinue(a) == a \in {"continue", "Continue"}
IsStop(a) == a \in {"stop"}

\* C14: process_autogen sends a frame in one case only: on 'continue', in
\* any letter case, when the cached object has input, it passes the payload's
\* inputs to the object once and sends one start frame.  On 'continue'
\* without input and on 'stop' it sends nothing; 'stop' calls the object's
\* stop once when it has one and never otherwise; no exception leaves it.
C14_Controller ==
    \A t \in Tasks :
        req[t] = "autogen" =>
            /\ pc[t] \notin {"raise", "raised"}
            /\ exc[t] = Nil
            /\ pc[t] = "return" =>
                LET object == CacheGet(in_memory_cache,
                                  get_cache_key(conn.client_id, conn.chat_id, NoNode))
                    action == payload[t].inputs.action
                    fr == TaskFrames(t)
                IN  IF IsContinue(action) /\ object.has_input
                    THEN /\ obj_calls[t] = <<"input">>
                         /\ Len(fr) = 1
                         /\ fr[1].type = "start"
                    ELSE /\ fr = << >>
                         /\ obj_calls[t] =
                                IF IsStop(action) /\ object.has_stop
                                THEN <<"stop">> ELSE << >>

\* 'Continue' was forwarded to an object that has input, and start was sent
C14_Witness ==
    \E t \in Tasks :
        /\ req[t] = "autogen"
        /\ pc[t] = "return"
        /\ payload[t].inputs.action = "Continue"
        /\ obj_calls[t] = <<"input">>
        /\ Len(TaskFrames(t)) = 1

\* what a frame shows: type, category, message and intermediate_steps
Core(f) == <<f.type, f.category, f.message, f.intermediate_steps>>
CoreFrames(t, k) ==
    LET fr == TurnFrames(t, k) IN [i \in 1..Len(fr) |-> Core(fr[i])]
\* turn k of task t is over, with its outcome on record
RecordedTurn(t, k) == k \in 1..Len(outcome[t]) /\ TurnEnded(t, k)

\* C15: two turns of process_message on the session that ran with the same
\* is_begin and whose computation ended the same way (the same result, or
\* the same exception), as two runs with the same payload, artifacts and
\* cached object do when the computation is deterministic, sent frame
\* sequences of the same length that agree, place by place, on type,
\* category, message and intermediate_steps.
C15_Idempotent ==
    \A t, u \in Tasks :
        \A k \in 1..Len(outcome[t]), l \in 1..Len(outcome[u]) :
            (/\ RecordedTurn(t, k)
             /\ RecordedTurn(u, l)
             /\ outcome[t][k] = outcome[u][l])
            => CoreFrames(t, k) = CoreFrames(u, l)

\* two calls ran the same failing turn with is_begin true
C15_Witness ==
    /\ RecordedTurn(1, 1)
    /\ RecordedTurn(2, 1)
    /\ req[1] = "default"
    /\ req[2] = "default"
    /\ outcome[1][1] = outcome[2][1]
    /\ outcome[1][1].is_begin
    /\ ~outcome[1][1].ok
    /\ Len(TurnFrames(2, 1)) >= 4

\* task t is a file action whose build succeeded
Built(t) == req[t] = "auto_file" /\ Running(t) /\ pf[t].graph # << >>
\* process_message has read the cached object (line 64)
PastCompute ==
    {"pm_except", "pm_dup_start", "pm_dup_end", "pm_err_close", "pm_logs",
     "il_entry", "pm_source", "pm_answer_start", "pm_answer_end", "pm_close",
     "pm_recall", "pm_return"}
\* the node of a graph with the given id
NodeOf(graph, id) == graph[CHOOSE i \in 1..Len(graph) : graph[i].id = id]

\* C16: once a file action has built its graph, for every node n of the
\* graph the cache entry of (client id, chat id, n.id) holds n's built object
\* and the entry of that key with the '_artifacts' suffix holds the build's one
\* artifact map; a turn that targets n afterwards resolves its inputs against
\* that map and runs that object.
C16_CacheEntries ==
    /\ \A t \in Tasks :
           Built(t) =>
               /\ \A i \in 1..Len(pf[t].graph) :
                      LET n == pf[t].graph[i]
                          key == get_cache_key(conn.client_id, conn.chat_id, n.id)
                      IN  /\ key \in DOMAIN in_memory_cache
                          /\ Artifacts(key) \in DOMAIN in_memory_cache
                          /\ CacheGet(in_memory_cache, key) = n.built_object
                          /\ CacheGetArtifacts(in_memory_cache, Artifacts(key))
                                 = pf[t].artifacts
               /\ pc[t] \in PmPositions \ {"pm_entry"} =>
                      /\ pm[t].node_id = pf[t].target
                      /\ \A f \in DOMAIN pm[t].chat_inputs :
                             pm[t].chat_inputs[f] =
                                 IF f \in DOMAIN pf[t].artifacts
                                 THEN pf[t].artifacts[f]
                                 ELSE pf[t].payload.inputs[f]
               /\ pc[t] \in PastCompute \cap PmPositions =>
                      pm[t].langchain_object =
                          NodeOf(pf[t].graph, pf[t].target).built_object
    /\ \A u \in Tasks :
           pc[u] \in PastCompute =>
               pm[u].langchain_object = CacheGet(in_memory_cache, pm[u].key)

\* a turn of a file action runs the object built for its target, with an
\* input taken from the build's artifact map
C16_Witness ==
    \E t \in Tasks :
        /\ Built(t)
        /\ Len(pf[t].graph) = 2
        /\ pf[t].artifacts # << >>
        /\ pc[t] = "pm_except"
        /\ pm[t].chat_inputs.question = "from file"

\* the cache keys that name a node: (client id, chat id, node id)
NodeKeys ==
    {key \in DOMAIN in_memory_cache : Len(key) = 3 /\ key[3] \notin {NoNode, ""}}

\* every entry under a node's key is the object built for that node
C17_OwnObject ==
    \A key \in NodeKeys : in_memory_cache[key].node = key[3]
\* a step of a default or autogen action, or of a turn of process_message,
\* leaves the cache as it was
C17_NoWrite ==
    \A t \in Tasks :
        (/\ pc'[t] # pc[t]
         /\ \/ req'[t] \in {"default", "autogen"}
            \/ pc[t] \in PmPositions)
        => UNCHANGED in_memory_cache

\* C17: over any sequence of actions, a cache entry under a node's key is
\* only ever the object built for that node, never that of another node, and
\* the default and autogen handlers never write the cache.
C17_CacheOwnership == []C17_OwnObject /\ [][C17_NoWrite]_vars

\* a two-node graph was cached by one action and a default action ran after
C17_Witness ==
    /\ Cardinality(NodeKeys) = 2
    /\ req[1] = "auto_file"
    /\ req[2] = "default"
    /\ pc[2] \in {"done", "raised"}

\* process_message has resolved its inputs (line 51)
PastBegin == (PmPositions \ {"pm_entry"}) \cup {"pm_return"}

\* C18: once a turn has resolved its inputs, the inputs given to the
\* computation have the fields the caller sent (the node id aside): a field
\* that the target node's artifact map also has carries the cached artifact,
\* every other field carries the value sent, and no field that only the
\* artifact map has is added.
C18_Override ==
    \A t \in Tasks :
        pc[t] \in PastBegin =>
            LET sent == PayloadOf(t).inputs
                key == get_cache_key(conn.client_id, conn.chat_id, NodeIdOf(sent))
                artifacts == CacheGetArtifacts(in_memory_cache, Artifacts(key))
                given == pm[t].chat_inputs
            IN  /\ DOMAIN given = DOMAIN sent \ {"id"}
                /\ \A f \in DOMAIN given :
                       given[f] = IF f \in DOMAIN artifacts
                                  THEN artifacts[f] ELSE sent[f]

\* a default turn on a node whose artifact map has the question and a field
\* the inputs lack, with an input the map lacks
C18_Witness ==
    \E t \in Tasks :
        /\ req[t] = "default"
        /\ pc[t] = "pm_compute"
        /\ pm[t].node_id = "n1"
        /\ pm[t].chat_inputs = [question |-> "from file", lang |-> "en"]
        /\ "file" \in DOMAIN
               CacheGetArtifacts(in_memory_cache, Artifacts(pm[t].key))

\* the positions of the except branch of process_message (lines 70-85)
ExceptPositions == {"pm_except", "pm_dup_start", "pm_dup_end", "pm_err_close"}
\* the turn process_message is running, or ran last, for task t failed
LastTurnFailed(t) ==
    /\ outcome[t] # << >>
    /\ Len(outcome[t]) = TurnOf(t)
    /\ ~outcome[t][Len(outcome[t])].ok

\* a turn whose computation raised goes through the except branch and
\* returns None; an exception that leaves process_message is never that of
\* the computation
C19_Caught ==
    \A t \in Tasks :
        /\ pc[t] \in ExceptPositions => LastTurnFailed(t)
        /\ LastTurnFailed(t) =>
               /\ pc[t] \notin {"raise", "raised"}
               /\ exc[t] = Nil
               /\ pc[t] = "pm_return" => pm[t].result = Nil
               /\ outcome[t][Len(outcome[t])].result = Nil
        /\ pc[t] \in {"raise", "raised"} =>
               exc[t] \in {"TypeError", "unknown action"}
\* the steps of the failing computation and of the except branch change
\* neither the RecallChunk rows nor the cache
C19_NoEffect ==
    \A t \in Tasks :
        (/\ pc'[t] # pc[t]
         /\ pc[t] \in ExceptPositions \cup {"pm_compute"}
         /\ pc'[t] \in ExceptPositions \cup {"pm_return"})
        => UNCHANGED <<recall, in_memory_cache>>

\* C19: an exception raised while the cached object is read or run is caught
\* inside process_message and never reaches dispatch_task; the failed turn
\* returns no answer, records no RecallChunk and leaves the cache as it was.
C19_Contained == []C19_Caught /\ [][C19_NoEffect]_vars

\* a default action whose computation raised has returned to its caller, on a
\* session with a cache
C19_Witness ==
    \E t \in Tasks :
        /\ req[t] = "default"
        /\ LastTurnFailed(t)
        /\ pc[t] = "done"
        /\ DOMAIN in_memory_cache # {}

\* the chat history without what it held before intermediate_logs ran
Grown == SelectSeq(chat_history, LAMBDA m : m.intermediate_steps # "earlier")
\* intermediate_logs builds sub-frames from these steps: a list of exchanges
\* that is not empty, or a log that is not blank on a session with a chat id
BuildsSubFrames(steps) ==
    \/ steps.kind = "list" /\ steps.list # << >>
    \/ steps.kind = "str" /\ conn.chat_id # "" /\ ~Blank(steps.lines)
\* the number of sub-frames: one per exchange, one per line
SubFrameCount(steps) ==
    IF steps.kind = "list" THEN Len(steps.list) ELSE Len(steps.lines)
\* the i-th history entry added is the sub-frame of the i-th exchange or line
IsSubFrame(m, steps, i) ==
    /\ m.type = "end"
    /\ IF steps.kind = "list"
       THEN /\ m.message = steps.list[i].message
            /\ m.intermediate_steps = Nil
       ELSE /\ m.message = Nil
            /\ m.intermediate_steps =
                   IF steps.lines[i] = SdWithResult THEN "Answer: r"
                   ELSE steps.lines[i]
\* intermediate_logs returned to process_message
LogsDone(t) == pc[t] = "pm_source"

\* the frames sent and the history once intermediate_logs has sent its frame
C20_OneFrame ==
    \A t \in Tasks :
        pc[t] \in {"il_persist", "pm_source"} =>
            LET steps == pm[t].intermediate_steps
            IN  /\ Len(channel) = 1
                /\ channel[1].type = "end"
                /\ ~channel[1].add
                /\ channel[1].message = Nil
                /\ (Falsy(steps) \/ BuildsSubFrames(steps))
                       => channel[1].intermediate_steps = Nil
                /\ pc[t] = "il_persist" => Grown = << >>
                /\ LogsDone(t) =>
                       IF BuildsSubFrames(steps)
                       THEN /\ Len(Grown) = SubFrameCount(steps)
                            /\ \A i \in 1..Len(Grown) :
                                   IsSubFrame(Grown[i], steps, i)
                       ELSE Grown = << >>
\* the history only grows at its end
C20_AppendOnly ==
    /\ Len(chat_history') >= Len(chat_history)
    /\ SubSeq(chat_history', 1, Len(chat_history)) = chat_history

====
